---- MODULE Spec2Model ----
(***************************************************************************)
(* Model of src/main.py: the Team / Hero CRUD handlers of the FastAPI +    *)
(* SQLModel application, over a store of two tables kept by SQLite.        *)
(*                                                                         *)
(* A Python value of type  T | None  is written as a sequence: None is     *)
(* <<>> and the value v is <<v>>.  A table is the sequence of its rows in  *)
(* rowid order; a row is a record of its columns.  A request body (a       *)
(* pydantic model instance) is a record of its field values together with  *)
(* fields_set, the names of the fields the caller explicitly supplied.     *)
(***************************************************************************)
EXTENDS Integers, Sequences, FiniteSets, TLC

VARIABLES teams, heroes, request, response

vars == <<teams, heroes, request, response>>

(* ---------------------------- bounds ----------------------------------- *)

\* Largest primary key the store hands out for a Team / for a Hero.
MaxTeamId == 1
MaxHeroId == 2

\* Largest number of fields a PATCH body supplies explicitly.
MaxFieldsSet == 1

(* ------------------------- Python values ------------------------------- *)

None == <<>>

Some(v) == <<v>>

\* str(x) as an f-string renders it.
Str(x) == IF x = None THEN "None" ELSE x[1]

Names == {"A", "B"}
Headquarters == {"H"}
SecretNames == {"S"}
Ages == {1}
Passwords == {"x"}
TeamIds == 1..MaxTeamId
HeroIds == 1..MaxHeroId

\* The ids a request path names.
PathIds == TeamIds \cup HeroIds

Opt(S) == {None} \cup {Some(v) : v \in S}

Min(a, b) == IF a < b THEN a ELSE b

(* ---------------------------- data model ------------------------------- *)

TeamBaseFields == {"name", "headquarters"}
TeamPublic == TeamBaseFields \cup {"id"}
TeamPublicRequired == {"name", "headquarters", "id"}
TeamUpdateFields == {"name", "headquarters"}

HeroBaseFields == {"name", "secret_name", "age", "team_id"}
HeroColumns == HeroBaseFields \cup {"id", "hashed_password"}
HeroNotNull == {"name", "secret_name", "hashed_password"}
HeroPublic == HeroBaseFields \cup {"id"}
HeroPublicRequired == {"name", "secret_name", "id"}
HeroUpdateFields == {"name", "secret_name", "age", "password", "team_id"}

\* Request bodies that pass validation.
TeamCreate ==
    [name : {Some(n) : n \in Names}, headquarters : {Some(h) : h \in Headquarters}]

TeamUpdate ==
    {p \in [fields_set : {K \in SUBSET TeamUpdateFields : Cardinality(K) <= MaxFieldsSet},
            name : Opt(Names), headquarters : Opt(Headquarters)] :
        \A f \in TeamUpdateFields \ p.fields_set : p[f] = None}

HeroCreate ==
    [name : {Some(n) : n \in Names}, secret_name : {Some(s) : s \in SecretNames},
     age : Opt(Ages), team_id : Opt(TeamIds), password : {Some(w) : w \in Passwords}]

HeroUpdate ==
    {p \in [fields_set : {K \in SUBSET HeroUpdateFields : Cardinality(K) <= MaxFieldsSet},
            name : Opt(Names), secret_name : Opt(SecretNames), age : Opt(Ages),
            password : Opt(Passwords), team_id : Opt(TeamIds)] :
        \A f \in HeroUpdateFields \ p.fields_set : p[f] = None}

\* model_dump(exclude_unset=True): the explicitly supplied fields only.
model_dump(m) == [f \in m.fields_set |-> m[f]]

(* ------------------------------ store ---------------------------------- *)

Ids(table) == {table[i].id[1] : i \in 1..Len(table)}

\* Mutant of NextId: the number of rows plus one.
NextId_count(table) == Len(table) + 1

\* SQLite's rowid for INTEGER PRIMARY KEY: one more than the largest in use.
NextId(table) ==
    IF Len(table) = 0 THEN 1
    ELSE (CHOOSE m \in Ids(table) : \A j \in Ids(table) : j <= m) + 1

\* session.get(Model, id): the row as Some(row), or None.
get(table, id) ==
    IF \E i \in 1..Len(table) : table[i].id = Some(id)
    THEN Some(table[CHOOSE i \in 1..Len(table) : table[i].id = Some(id)])
    ELSE None

\* INSERT at commit: the row gets the next rowid.
Insert(table, row) == Append(table, row)

\* UPDATE at commit: the row with this primary key is overwritten.
Update(table, row) ==
    [i \in 1..Len(table) |-> IF table[i].id = row.id THEN row ELSE table[i]]

\* Mutant of Delete: the deletion is never committed.
Delete_uncommitted(table, id) == table

\* DELETE at commit.
Delete(table, id) == SelectSeq(table, LAMBDA r : r.id # Some(id))

\* The NOT NULL columns checked at commit.
IntegrityOk(row, notnull) == \A c \in notnull : row[c] # None

\* SELECT ... LIMIT limit OFFSET offset in SQLite: a negative LIMIT is no
\* limit, a negative OFFSET is zero.
Select(table, offset, limit) ==
    LET off == IF offset < 0 THEN 0 ELSE offset
        last == IF limit < 0 THEN Len(table) ELSE Min(Len(table), off + limit)
    IN  SubSeq(table, off + 1, last)

(* ---------------------------- responses -------------------------------- *)

MaxLimit == 100

Offsets == {-1, 0, 1}
Limits == {-1, 0, 1, MaxLimit + 1}

NoResponse == [status |-> 0, kind |-> "none", body |-> <<>>]

HTTPException(code, msg) ==
    [status |-> code, kind |-> "error", body |-> [detail |-> msg]]

InternalServerError == HTTPException(500, "Internal Server Error")

ValidationError == HTTPException(422, "Unprocessable Entity")

\* Does obj validate against the response model?
Validates(obj, required) ==
    \A f \in required : f \in DOMAIN obj /\ obj[f] # None

\* Mutant of Serialize: the object is returned as it is stored.
Serialize_unfiltered(obj, fields) == obj

\* Serialisation through response_model: only the model's fields are kept.
Serialize(obj, fields) == [f \in fields |-> obj[f]]

Respond(obj, fields, required) ==
    IF Validates(obj, required) /\ fields \subseteq DOMAIN obj
    THEN [status |-> 200, kind |-> "object", body |-> Serialize(obj, fields)]
    ELSE InternalServerError

RespondList(rows, fields, required) ==
    IF \A i \in 1..Len(rows) : Validates(rows[i], required) /\ fields \subseteq DOMAIN rows[i]
    THEN [status |-> 200, kind |-> "list",
          body |-> [i \in 1..Len(rows) |-> Serialize(rows[i], fields)]]
    ELSE InternalServerError

Ok == [status |-> 200, kind |-> "object", body |-> [ok |-> TRUE]]

(* --------------------------- hash_password ----------------------------- *)

\* Mutant of hash_password: the password is returned as it came.
hash_password_plain(password) == Str(password)

hash_password(password) == "not really hashed " \o Str(password) \o " hehehe"

(* ----------------------------- handlers -------------------------------- *)

\* The request a handler was called for: its name, path id and query
\* parameters, and its body.
Request(op, id, body) == [op |-> op, id |-> id, body |-> body]

Query(offset, limit) == [offset |-> offset, limit |-> limit]

Init ==
    /\ teams = <<>>
    /\ heroes = <<>>
    /\ request = Request("startup", None, None)
    /\ response = NoResponse

create_team(team) ==
    LET db_team == [id |-> Some(NextId(teams)), name |-> team.name,
                    headquarters |-> team.headquarters]
    IN  /\ db_team.id[1] <= MaxTeamId
        /\ request' = Request("create_team", None, team)
        /\ teams' = Insert(teams, db_team)
        /\ heroes' = heroes
        /\ response' = Respond(db_team, TeamPublic, TeamPublicRequired)

read_teams(offset, limit) ==
    /\ request' = Request("read_teams", None, Query(offset, limit))
    /\ response' = IF limit > MaxLimit THEN ValidationError
                   ELSE RespondList(Select(teams, offset, limit),
                                    TeamPublic, TeamPublicRequired)
    /\ UNCHANGED <<teams, heroes>>

read_team(team_id) ==
    LET team == get(teams, team_id)
    IN  /\ request' = Request("read_team", Some(team_id), None)
        /\ response' = IF team = None THEN HTTPException(404, "Team not found")
                       ELSE Respond(team[1], TeamPublic, TeamPublicRequired)
        /\ UNCHANGED <<teams, heroes>>

\* setattr on a table-model instance: a name that is no field of the model
\* raises ValueError.
HasField(obj, key) == key \in DOMAIN obj

\* bool(team) of a request body: a pydantic model instance is always truthy.
Truthy(model) == TRUE

\* The row update_team looks up: session.get(Hero, team_id).
update_team_get(team_id) == get(heroes, team_id)

update_team(team_id, team) ==
    LET db_team == update_team_get(team_id)
        team_data == model_dump(team)
        \* setattr(None, ...) raises AttributeError, session.add(None) raises
        \* UnmappedInstanceError, setattr of a name that is no field ValueError
        raises == \/ db_team = None
                  \/ \E key \in DOMAIN team_data : ~HasField(db_team[1], key)
        new == [c \in DOMAIN db_team[1] |->
                   IF c \in DOMAIN team_data THEN team_data[c] ELSE db_team[1][c]]
    IN  /\ request' = Request("update_team", Some(team_id), team)
        /\ IF ~Truthy(team)
           THEN /\ response' = HTTPException(404, "Team not found")
                /\ UNCHANGED <<teams, heroes>>
           ELSE IF raises \/ ~IntegrityOk(new, HeroNotNull)
           THEN /\ response' = InternalServerError
                /\ UNCHANGED <<teams, heroes>>
           ELSE /\ heroes' = Update(heroes, new)
                /\ teams' = teams
                /\ response' = Respond(new, TeamPublic, TeamPublicRequired)

\* Mutant of Disassociate: the Team's heroes are deleted with it.
Disassociate_cascade(table, team_id) ==
    SelectSeq(table, LAMBDA r : r.team_id # Some(team_id))

\* session.delete(team) with Team.heroes a relationship without delete
\* cascade: at flush the ORM sets team_id of the Team's heroes to NULL.
Disassociate(table, team_id) ==
    [i \in 1..Len(table) |->
        IF table[i].team_id = Some(team_id)
        THEN [table[i] EXCEPT !.team_id = None] ELSE table[i]]

delete_team(team_id) ==
    LET team == get(teams, team_id)
    IN  /\ request' = Request("delete_team", Some(team_id), None)
        /\ IF team = None
           THEN /\ response' = HTTPException(404, "Team not found")
                /\ UNCHANGED <<teams, heroes>>
           ELSE /\ teams' = Delete(teams, team_id)
                /\ heroes' = Disassociate(heroes, team_id)
                /\ response' = Ok

create_hero(hero) ==
    LET hashed_password == hash_password(hero.password)
        db_hero == [id |-> Some(NextId(heroes)), name |-> hero.name,
                    secret_name |-> hero.secret_name, age |-> hero.age,
                    team_id |-> hero.team_id,
                    hashed_password |-> Some(hashed_password)]
    IN  /\ db_hero.id[1] <= MaxHeroId
        /\ request' = Request("create_hero", None, hero)
        /\ heroes' = Insert(heroes, db_hero)
        /\ teams' = teams
        /\ response' = Respond(db_hero, HeroPublic, HeroPublicRequired)

read_heroes(offset, limit) ==
    /\ request' = Request("read_heroes", None, Query(offset, limit))
    /\ response' = IF limit > MaxLimit THEN ValidationError
                   ELSE RespondList(Select(heroes, offset, limit),
                                    HeroPublic, HeroPublicRequired)
    /\ UNCHANGED <<teams, heroes>>

read_hero(hero_id) ==
    LET hero == get(heroes, hero_id)
    IN  /\ request' = Request("read_hero", Some(hero_id), None)
        /\ response' = IF hero = None THEN HTTPException(404, "Hero not found")
                       ELSE Respond(hero[1], HeroPublic, HeroPublicRequired)
        /\ UNCHANGED <<teams, heroes>>

\* Mutant of sqlmodel_update: a key is set only when its value is truthy.
sqlmodel_update_truthy(row, data, extra) ==
    [c \in DOMAIN row |->
        IF c \in DOMAIN extra THEN extra[c]
        ELSE IF c \in DOMAIN data /\ data[c] # None THEN data[c]
        ELSE row[c]]

\* db_hero.sqlmodel_update(hero_data, update=extra_data): every key of the
\* merged dict that is a field of Hero is set on the row.
sqlmodel_update(row, data, extra) ==
    [c \in DOMAIN row |->
        IF c \in DOMAIN extra THEN extra[c]
        ELSE IF c \in DOMAIN data THEN data[c]
        ELSE row[c]]

update_hero(hero_id, hero) ==
    LET db_hero == get(heroes, hero_id)
        hero_data == model_dump(hero)
        extra_data == IF "password" \in DOMAIN hero_data
                      THEN [k \in {"hashed_password"} |->
                               Some(hash_password(hero_data["password"]))]
                      ELSE [k \in {} |-> None]
        new == sqlmodel_update(db_hero[1], hero_data, extra_data)
    IN  /\ request' = Request("update_hero", Some(hero_id), hero)
        /\ IF db_hero = None
           THEN /\ response' = HTTPException(404, "Hero not found")
                /\ UNCHANGED <<teams, heroes>>
           ELSE IF ~IntegrityOk(new, HeroNotNull)
           THEN /\ response' = InternalServerError
                /\ UNCHANGED <<teams, heroes>>
           ELSE /\ heroes' = Update(heroes, new)
                /\ teams' = teams
                /\ response' = Respond(new, HeroPublic, HeroPublicRequired)

delete_hero(hero_id) ==
    LET hero == get(heroes, hero_id)
    IN  /\ request' = Request("delete_hero", Some(hero_id), None)
        /\ IF hero = None
           THEN /\ response' = HTTPException(404, "Hero not found")
                /\ UNCHANGED <<teams, heroes>>
           ELSE /\ heroes' = Delete(heroes, hero_id)
                /\ teams' = teams
                /\ response' = Ok

Next ==
    \/ \E team \in TeamCreate : create_team(team)
    \/ \E offset \in Offsets, limit \in Limits : read_teams(offset, limit)
    \/ \E team_id \in PathIds : read_team(team_id)
    \/ \E team_id \in PathIds, team \in TeamUpdate : update_team(team_id, team)
    \/ \E team_id \in PathIds : delete_team(team_id)
    \/ \E hero \in HeroCreate : create_hero(hero)
    \/ \E offset \in Offsets, limit \in Limits : read_heroes(offset, limit)
    \/ \E hero_id \in PathIds : read_hero(hero_id)
    \/ \E hero_id \in PathIds, hero \in HeroUpdate : update_hero(hero_id, hero)
    \/ \E hero_id \in PathIds : delete_hero(hero_id)

Spec == Init /\ [][Next]_vars

(* ------------------------------ claims --------------------------------- *)

\* The path id and the body of the request being answered.
PathId == request'.id[1]

Body == request'.body

\* C1: Update Team on an id for which no Team row exists signals not-found
\* (404), for every payload, and leaves the Team table and the Hero table
\* unchanged.
C1_UpdateTeamUnknownIdNotFound ==
    [][(request'.op = "update_team" /\ get(teams, PathId) = None)
        => (response'.status = 404 /\ teams' = teams /\ heroes' = heroes)]_vars

\* C2: Update Team on an id for which a Team row exists overwrites, on that
\* row, exactly the fields present in the payload with the supplied values
\* and returns that Team's public shape with the same id (stated for the
\* payloads that supply no null).
C2_UpdateTeamAppliesFields ==
    [][(/\ request'.op = "update_team"
        /\ get(teams, PathId) # None
        /\ \A f \in Body.fields_set : Body[f] # None)
        => LET row == get(teams, PathId)[1]
               expected == [c \in DOMAIN row |->
                               IF c \in Body.fields_set THEN Body[c] ELSE row[c]]
           IN  /\ response'.status = 200
               /\ response'.body = Serialize(expected, TeamPublic)
               /\ get(teams', PathId) = Some(expected)]_vars

\* C3 as stated: deleting a Team does not change any Hero row (a Hero of the
\* deleted Team keeps its team_id).
C3_DeleteTeamLeavesHeroesUntouched ==
    [][(request'.op = "delete_team" /\ response' = Ok) => heroes' = heroes]_vars

\* C3 as amended: deleting a Team deletes no Hero row and adds none; every
\* Hero whose team_id equalled the deleted Team's id still exists afterwards
\* with team_id null and its other fields unchanged, every other Hero row is
\* unchanged; a Delete Team that signals not-found changes no Hero row.
C3_DeleteTeamNullsTeamIdOnly ==
    [][(request'.op = "delete_team")
        => IF response' = Ok
           THEN /\ Len(heroes') = Len(heroes)
                /\ \A i \in 1..Len(heroes) :
                     /\ \A c \in HeroColumns \ {"team_id"} :
                          heroes'[i][c] = heroes[i][c]
                     /\ heroes'[i].team_id =
                          IF heroes[i].team_id = Some(PathId) THEN None
                          ELSE heroes[i].team_id
           ELSE heroes' = heroes]_vars

\* C3 witness: Delete Team returned ok while a Hero row is stored, and no
\* stored Hero references the deleted id.
C3_Witness ==
    /\ request.op = "delete_team" /\ response = Ok
    /\ Len(heroes) = 2
    /\ heroes[1].team_id = None /\ heroes[2].team_id = None
    /\ heroes[1].name # heroes[2].name

\* C4: List Teams and List Heroes never return more records than the
\* requested limit (none for a limit below zero) and never more than 100.
C4_ListAtMostLimit ==
    (request.op \in {"read_teams", "read_heroes"} /\ response.kind = "list")
        => /\ Len(response.body) <= (IF request.body.limit < 0 THEN 0
                                     ELSE request.body.limit)
           /\ Len(response.body) <= MaxLimit

\* The effect of Update Hero on the row it names, used by C5.
OldHero == get(heroes, PathId)[1]

NewHero == get(heroes', PathId)[1]

\* C5 frame: a field absent from the payload keeps its stored value,
\* hashed_password changes only when password is present, an empty payload
\* changes nothing, and no other row changes.
C5_Frame ==
    (request'.op = "update_hero" /\ get(heroes, PathId) # None)
        => /\ get(heroes', PathId) # None
           /\ Len(heroes') = Len(heroes)
           /\ NewHero.id = OldHero.id
           /\ \A f \in HeroBaseFields :
                f \notin Body.fields_set => NewHero[f] = OldHero[f]
           /\ "password" \notin Body.fields_set
                => NewHero.hashed_password = OldHero.hashed_password
           /\ Body.fields_set = {} => heroes' = heroes
           /\ \A i \in 1..Len(heroes) :
                heroes[i].id # Some(PathId) => heroes'[i] = heroes[i]

\* C5 as stated: the frame, and every field explicitly supplied as null is
\* applied.
C5_UpdateHeroAppliesEveryNull ==
    [][/\ C5_Frame
       /\ (request'.op = "update_hero" /\ get(heroes, PathId) # None)
            => \A f \in HeroBaseFields :
                 (f \in Body.fields_set /\ Body[f] = None) => NewHero[f] = None]_vars

\* C5 as amended: the frame; a supplied name, secret_name, age or team_id is
\* stored as supplied, null included for age and team_id, and the request
\* succeeds, unless name or secret_name is supplied as null: then the
\* request fails (status 500) and the Hero is unchanged.
C5_UpdateHeroAppliesPresentFields ==
    [][/\ C5_Frame
       /\ (request'.op = "update_hero" /\ get(heroes, PathId) # None)
            => IF \E f \in {"name", "secret_name"} :
                     f \in Body.fields_set /\ Body[f] = None
               THEN response'.status = 500 /\ heroes' = heroes
               ELSE /\ response'.status = 200
                    /\ \A f \in HeroBaseFields :
                         f \in Body.fields_set => NewHero[f] = Body[f]]_vars

\* C5 witness: an update that supplied age as null, and nothing else, was
\* applied to a Hero that keeps a team and its name.
C5_Witness ==
    /\ request.op = "update_hero" /\ response.status = 200
    /\ request.body.fields_set = {"age"} /\ request.body.age = None
    /\ response.body.age = None
    /\ response.body.team_id # None /\ response.body.name = Some("B")

\* C6: a Delete that returns ok removes the row; a Read or a Delete of an id
\* with no row signals not-found (so directly after the Delete, too); and
\* only a Create of that entity adds a row.  For Team and for Hero.
C6_DeletedStaysNotFound ==
    [][/\ (request'.op = "delete_team" /\ response' = Ok)
            => get(teams', PathId) = None
       /\ (request'.op = "delete_hero" /\ response' = Ok)
            => get(heroes', PathId) = None
       /\ (request'.op \in {"read_team", "delete_team"} /\ get(teams, PathId) = None)
            => response'.status = 404
       /\ (request'.op \in {"read_hero", "delete_hero"} /\ get(heroes, PathId) = None)
            => response'.status = 404
       /\ (request.op = "delete_team" /\ response = Ok /\ request'.id = request.id
           /\ request'.op \in {"read_team", "delete_team"})
            => response'.status = 404
       /\ (request.op = "delete_hero" /\ response = Ok /\ request'.id = request.id
           /\ request'.op \in {"read_hero", "delete_hero"})
            => response'.status = 404
       /\ request'.op # "create_team" => Ids(teams') \subseteq Ids(teams)
       /\ request'.op # "create_hero" => Ids(heroes') \subseteq Ids(heroes)]_vars

\* C6 witness: a second Delete of a Hero id signals not-found while another
\* Hero is still stored.
C6_Witness ==
    /\ request.op = "delete_hero" /\ request.id = Some(1)
    /\ response.status = 404
    /\ Ids(heroes) = {2}

\* The ids of a table are pairwise distinct.
UniqueIds(table) ==
    \A i, j \in 1..Len(table) : table[i].id = table[j].id => i = j

\* C7: the id a Create returns is the id of exactly one stored record of
\* that entity, ids are unique in each table, a Read of an id returns that
\* id, and no request changes the id of a stored Team or Hero.
C7_IdsUniqueAndStable ==
    [][/\ UniqueIds(teams') /\ UniqueIds(heroes')
       /\ request'.op = "create_team"
            => /\ response'.status = 200
               /\ Cardinality({i \in 1..Len(teams') : teams'[i].id = response'.body.id}) = 1
       /\ request'.op = "create_hero"
            => /\ response'.status = 200
               /\ Cardinality({i \in 1..Len(heroes') : heroes'[i].id = response'.body.id}) = 1
       /\ (request'.op = "read_team" /\ response'.status = 200)
            => response'.body.id = request'.id
       /\ (request'.op = "read_hero" /\ response'.status = 200)
            => response'.body.id = request'.id
       /\ request'.op # "delete_team"
            => \A i \in 1..Len(teams) : teams'[i].id = teams[i].id
       /\ request'.op # "delete_hero"
            => \A i \in 1..Len(heroes) : heroes'[i].id = heroes[i].id
       /\ request'.op = "delete_team"
            => \A i \in 1..Len(teams') : \E j \in 1..Len(teams) : teams'[i] = teams[j]
       /\ request'.op = "delete_hero"
            => \A i \in 1..Len(heroes') : \E j \in 1..Len(heroes) : heroes'[i] = heroes[j]
      ]_vars

\* C7 witness: a Create returned an id that an earlier, deleted record had,
\* while another record is stored.
C7_Witness ==
    /\ request.op = "create_hero" /\ response.status = 200
    /\ response.body.id = Some(2)
    /\ Len(heroes) = 2 /\ heroes[1].id = Some(1)
    /\ heroes[1].name # heroes[2].name

\* The plaintext passwords a caller may supply.
Plaintexts == {Some(w) : w \in Passwords}

\* C8: the stored hashed_password is the derived value of the password
\* supplied at creation or at the last update that supplied one, it differs
\* from that plaintext, no other request changes it, and no Hero column
\* ever holds a plaintext password.
C8_HashedPasswordDerived ==
    [][/\ request'.op = "create_hero"
            => LET row == heroes'[Len(heroes')]
               IN  /\ row.hashed_password = Some(hash_password(Body.password))
                   /\ row.hashed_password # Body.password
       /\ (request'.op = "update_hero" /\ response'.status = 200
           /\ "password" \in Body.fields_set)
            => /\ NewHero.hashed_password = Some(hash_password(Body.password))
               /\ NewHero.hashed_password # Body.password
       /\ \A i \in 1..Len(heroes), j \in 1..Len(heroes') :
            (/\ heroes[i].id = heroes'[j].id
             /\ ~(/\ request'.op = "update_hero" /\ request'.id = heroes[i].id
                  /\ "password" \in Body.fields_set))
              => heroes'[j].hashed_password = heroes[i].hashed_password
       /\ \A i \in 1..Len(heroes'), c \in {"name", "secret_name", "hashed_password"} :
            heroes'[i][c] \notin Plaintexts]_vars

\* C8 witness: an update that supplied a password succeeded on a Hero whose
\* stored value was derived from another one.
C8_Witness ==
    /\ request.op = "update_hero" /\ response.status = 200
    /\ request.body.fields_set = {"password"}
    /\ request.body.password = Some("x")
    /\ request.id = Some(2)
    /\ Len(heroes) = 2
    /\ heroes[1].hashed_password = Some("not really hashed None hehehe")
    /\ heroes[2].hashed_password = Some("not really hashed x hehehe")

\* The fields and columns that hold text.
StringFields == {"name", "secret_name", "headquarters", "hashed_password"}

\* The hashed_password values of the stored Heroes.
StoredHashes == {heroes[i].hashed_password : i \in 1..Len(heroes)}

\* A response object carries neither the field hashed_password nor a stored
\* hash as the value of a field.
Public(obj) ==
    /\ "hashed_password" \notin DOMAIN obj
    /\ \A f \in DOMAIN obj \cap StringFields : obj[f] \notin StoredHashes
    /\ "detail" \in DOMAIN obj => Some(obj.detail) \notin StoredHashes

\* C9: no response of any handler contains the hashed_password field or
\* its value.
C9_NoHashedPasswordInResponse ==
    /\ response.kind \in {"object", "error"} => Public(response.body)
    /\ response.kind = "list"
         => \A i \in 1..Len(response.body) : Public(response.body[i])

\* C9 witness: the public shape of a stored Hero, which has a hash, was
\* returned.
C9_Witness ==
    /\ request.op = "read_hero" /\ response.status = 200
    /\ response.body.id = Some(2)
    /\ Len(heroes) = 2
    /\ heroes[2].hashed_password = Some("not really hashed None hehehe")

\* C10: Create Team and Update Team leave every Hero row unchanged, and
\* Create Hero, Update Hero and Delete Hero leave every Team row unchanged.
C10_WritesStayInTheirTable ==
    [][/\ request'.op \in {"create_team", "update_team"} => heroes' = heroes
       /\ request'.op \in {"create_hero", "update_hero", "delete_hero"}
            => teams' = teams]_vars

====
